---- MODULE Spec2Model ----
(***************************************************************************)
(* A model of the LSB steganography engine of neema-sll/Steganography-Tool *)
(* (src/steganography_engine.py): calculate_capacity, embed_data,          *)
(* extract_data and the helpers they call.                                 *)
(*                                                                         *)
(* Python sequences are 0-based, TLA+ sequences 1-based: element i of a    *)
(* Python list s is s[i + 1] here.  An image file is a record              *)
(* [mode, width, height, data], data being the samples in the order        *)
(* numpy's flatten() yields them (row, column, channel).                   *)
(***************************************************************************)
EXTENDS Integers, Sequences, FiniteSets, TLC

\* ------------------------------------------------------------------ bounds

\* Cover images have 1..MaxWidth columns and 1..MaxHeight rows.
MaxWidth == 21

MaxHeight == 2

\* Short payloads have 0..MaxPayloadLen bytes.
MaxPayloadLen == 11

\* bits_per_pixel arguments range over -1..MaxBitsInput (1, 2, 3 are valid).
MaxBitsInput == 4

\* Stego images given to extract_data declare body lengths 0..MaxHeaderLen
\* (and lengths at the sanity bound).
MaxHeaderLen == 3

\* Longest byte string given to _bytes_to_bits on its own.
MaxConvLen == 2

\* Longest list of bits given to _bits_to_bytes on its own.
MaxBitListLen == 9

\* Images given to verify_integrity have 1..MaxVerifyWidth pixels in a row.
MaxVerifyWidth == 2

\* Number of threads calling one engine at the same time.
NumThreads == 2

\* Most rows logged to table operations.
MaxOperations == 3

\* Last second the database's clock reaches.
MaxClock == 2

\* ------------------------------------------------------- program constants

\* header_bits = 40 (calculate_capacity), range(40) and 40 + ... (extract_data)
HeaderBits == 40

\* if data_length > 10000000 (extract_data)
MaxDataLength == 10000000

\* len(secret_data) > 100 (embed_data)
CompressionThreshold == 100

\* self.compression_level = 6
DefaultCompressionLevel == 6

\* self.max_threads = 4
DefaultMaxThreads == 4

\* ------------------------------------------------------------ integer bits

Pow2(k) == 2 ^ k

Min(a, b) == IF a < b THEN a ELSE b

Max(a, b) == IF a > b THEN a ELSE b

\* (x >> k) & 1
BitAt(x, k) == (x \div Pow2(k)) % 2

\* x & ~(1 << k), for x >= 0
ClearBit(x, k) == x - BitAt(x, k) * Pow2(k)

\* The bit written one slot too high.
OrBitNextSlot(x, v, k) ==
    IF v = 1 /\ BitAt(x, k + 1) = 0 THEN x + Pow2(k + 1) ELSE x

\* x | (v << k), for x >= 0 and v in {0, 1}
OrBit(x, v, k) == IF v = 1 /\ BitAt(x, k) = 0 THEN x + Pow2(k) ELSE x

\* np.clip(x, 0, 255)
Clip(x) == Max(0, Min(255, x))

\* ------------------------------------------------- _bytes_to_bits and back

\* The bits of each byte taken least significant first.
BytesToBitsLsbFirst(data) ==
    [k \in 1..(8 * Len(data)) |->
        BitAt(data[((k - 1) \div 8) + 1], (k - 1) % 8)]

\* for byte in data: for i in range(7, -1, -1): bits.append((byte >> i) & 1)
BytesToBits(data) ==
    [k \in 1..(8 * Len(data)) |->
        BitAt(data[((k - 1) \div 8) + 1], 7 - ((k - 1) % 8))]

\* while len(bits) % 8 != 0: bits.append(0)
PadBits(bits) ==
    bits \o [k \in 1..((8 - (Len(bits) % 8)) % 8) |-> 0]

\* A byte packed with its first bit as the least significant.
PackByteLsbFirst(bits, i) ==
    bits[i + 1] + bits[i + 2] * 2 + bits[i + 3] * 4 + bits[i + 4] * 8
    + bits[i + 5] * 16 + bits[i + 6] * 32 + bits[i + 7] * 64 + bits[i + 8] * 128

\* byte = 0; for j in range(8): byte = (byte << 1) | bits[i + j]
PackByte(bits, i) ==
    bits[i + 1] * 128 + bits[i + 2] * 64 + bits[i + 3] * 32 + bits[i + 4] * 16
    + bits[i + 5] * 8 + bits[i + 6] * 4 + bits[i + 7] * 2 + bits[i + 8]

BitsToBytes(bits) ==
    IF bits = <<>> THEN <<>>
    ELSE LET padded == PadBits(bits)
         IN  [k \in 1..(Len(padded) \div 8) |-> PackByte(padded, 8 * (k - 1))]

\* ---------------------------------------------------------------- struct

\* The length packed least significant byte first ('<IB').
PackHeaderLittleEndian(data_length, metadata) ==
    << data_length % 256, (data_length \div 256) % 256,
       (data_length \div 65536) % 256, (data_length \div 16777216) % 256,
       metadata >>

\* struct.pack('>IB', data_length, metadata)
PackHeader(data_length, metadata) ==
    << (data_length \div 16777216) % 256, (data_length \div 65536) % 256,
       (data_length \div 256) % 256, data_length % 256, metadata >>

\* struct.unpack('>I', header_bytes[:4])[0].  Python integers are unbounded and
\* the checker's are 32-bit signed: a length of 2^31 or more is given as
\* 2^31 - 1, which like it exceeds the sanity bound on lengths, the only thing
\* such a length is used for.
UnpackLength(header_bytes) ==
    IF header_bytes[1] >= 128 THEN 2147483647
    ELSE header_bytes[1] * 16777216 + header_bytes[2] * 65536
         + header_bytes[3] * 256 + header_bytes[4]

\* ------------------------------------------------------------------- zlib
\* zlib is a library the engine calls; it is modelled by a lossless byte codec
\* with the two properties the engine relies on: some inputs shrink and others
\* do not, and the decoder rejects byte strings that are not codec output.
\* The codec is run-length: a marker byte, then (count, byte) pairs.

\* Two encoded pieces joined: the last run of a and the first run of b are
\* one run when they repeat the same byte (a count stays a byte).
JoinRuns(a, b) ==
    IF a # <<>> /\ b # <<>> /\ a[Len(a)] = b[2] /\ a[Len(a) - 1] + b[1] <= 255
    THEN SubSeq(a, 1, Len(a) - 2) \o <<a[Len(a) - 1] + b[1], b[2]>>
         \o SubSeq(b, 3, Len(b))
    ELSE a \o b

\* The (count, byte) pairs of data[lo..hi], by halving the range.
RECURSIVE Deflate(_, _, _)
Deflate(data, lo, hi) ==
    IF lo > hi THEN <<>>
    ELSE IF lo = hi THEN <<1, data[lo]>>
    ELSE LET mid == (lo + hi) \div 2
         IN  JoinRuns(Deflate(data, lo, mid), Deflate(data, mid + 1, hi))

\* zlib.compress(secret_data, self.compression_level) at the level __init__
\* sets
ZlibCompress(data) == <<120>> \o Deflate(data, 1, Len(data))

\* zlib.compress(secret_data, level): level 0 stores the bytes without
\* looking for repetitions (every byte a run of one); the other levels
\* compress.
ZlibCompressAt(data, level) ==
    IF level = 0
    THEN <<120>> \o [k \in 1..(2 * Len(data)) |->
                        IF k % 2 = 1 THEN 1 ELSE data[k \div 2]]
    ELSE ZlibCompress(data)

\* The bytes that pairs lo..hi of c stand for (pair k is c[2k], c[2k + 1]).
RECURSIVE Inflate(_, _, _)
Inflate(c, lo, hi) ==
    IF lo > hi THEN <<>>
    ELSE IF lo = hi THEN [k \in 1..c[2 * lo] |-> c[2 * lo + 1]]
    ELSE LET mid == (lo + hi) \div 2
         IN  Inflate(c, lo, mid) \o Inflate(c, mid + 1, hi)

ZlibValid(c) ==
    /\ Len(c) >= 1
    /\ c[1] = 120
    /\ (Len(c) - 1) % 2 = 0
    /\ \A k \in 1..((Len(c) - 1) \div 2) : c[2 * k] >= 1

\* zlib.decompress(extracted_bytes); ok = FALSE models the zlib.error raised
ZlibDecompress(c) ==
    IF ZlibValid(c)
    THEN [ok |-> TRUE, data |-> Inflate(c, 1, (Len(c) - 1) \div 2)]
    ELSE [ok |-> FALSE, data |-> <<>>]

\* ----------------------------------------------------------------- images

\* A path at which no decodable image exists: Image.open raises.
NoImage == [mode |-> "none", width |-> 0, height |-> 0, data |-> <<>>]

\* Samples per pixel of a PIL mode.
Channels(mode) == IF mode = "L" THEN 1 ELSE IF mode = "RGBA" THEN 4 ELSE 3

\* img.convert('RGB') of a greyscale image: every pixel v becomes (v, v, v).
ConvertRGB(img) ==
    [mode |-> "RGB", width |-> img.width, height |-> img.height,
     data |-> [k \in 1..(3 * img.width * img.height) |->
                  img.data[((k - 1) \div 3) + 1]]]

\* img.convert('RGB') of an image of any of the three modes: a greyscale
\* pixel v becomes (v, v, v), an RGBA pixel loses its alpha sample, an RGB
\* image is copied.
ConvertToRGB(img) ==
    IF img.mode = "L" THEN ConvertRGB(img)
    ELSE IF img.mode = "RGBA"
    THEN [mode |-> "RGB", width |-> img.width, height |-> img.height,
          data |-> [k \in 1..(3 * img.width * img.height) |->
                       img.data[4 * ((k - 1) \div 3) + ((k - 1) % 3) + 1]]]
    ELSE img

\* with Image.open(path) as img:
\*     if img.mode not in ['RGB', 'RGBA']: img = img.convert('RGB')
\*     img_array = np.array(img)
OpenNormalized(file) ==
    IF file.mode \notin {"RGB", "RGBA"} THEN ConvertRGB(file) ELSE file

\* Image.fromarray(stego_array, mode='RGB') followed by save(format='PNG').
\* PIL takes width and height from the array's shape and, the mode being
\* given, reads the array's buffer as packed RGB: three bytes per pixel, in
\* buffer order, for width * height pixels.  Bytes beyond that are ignored.
\* PNG is lossless, so the file holds exactly these samples.
FromArrayRGB(width, height, flat) ==
    [mode |-> "RGB", width |-> width, height |-> height,
     data |-> SubSeq(flat, 1, 3 * width * height)]

\* ------------------------------------------------------ calculate_capacity

\* calculate_capacity counting pixels (width * height) where the code counts
\* samples (img_array.size).
CalculateCapacityPerPixel(file, bpp) ==
    IF file = NoImage
    THEN [raised |-> TRUE, pixels |-> 0, channels |-> 0, bits_per_pixel |-> bpp,
          available_bytes |-> 0, available_bits |-> 0, header_bits |-> 0,
          image_mode |-> "none", image_size |-> <<0, 0>>]
    ELSE LET img == OpenNormalized(file)
             total_pixels == img.width * img.height
             available_bits == total_pixels * bpp - HeaderBits
         IN  [raised |-> FALSE, pixels |-> total_pixels,
              channels |-> Channels(img.mode), bits_per_pixel |-> bpp,
              available_bytes |-> Max(0, available_bits \div 8),
              available_bits |-> available_bits, header_bits |-> HeaderBits,
              image_mode |-> img.mode,
              image_size |-> <<img.width, img.height>>]

\* calculate_capacity forgetting to take the header off the usable bits.
CalculateCapacityNoHeader(file, bpp) ==
    IF file = NoImage
    THEN [raised |-> TRUE, pixels |-> 0, channels |-> 0, bits_per_pixel |-> bpp,
          available_bytes |-> 0, available_bits |-> 0, header_bits |-> 0,
          image_mode |-> "none", image_size |-> <<0, 0>>]
    ELSE LET img == OpenNormalized(file)
             total_pixels == Len(img.data)
             available_bits == total_pixels * bpp
         IN  [raised |-> FALSE, pixels |-> total_pixels,
              channels |-> Channels(img.mode), bits_per_pixel |-> bpp,
              available_bytes |-> Max(0, available_bits \div 8),
              available_bits |-> available_bits, header_bits |-> HeaderBits,
              image_mode |-> img.mode,
              image_size |-> <<img.width, img.height>>]

\* raised = TRUE models the ValueError("Capacity calculation failed: ...").
CalculateCapacity(file, bpp) ==
    IF file = NoImage
    THEN [raised |-> TRUE, pixels |-> 0, channels |-> 0, bits_per_pixel |-> bpp,
          available_bytes |-> 0, available_bits |-> 0, header_bits |-> 0,
          image_mode |-> "none", image_size |-> <<0, 0>>]
    ELSE LET img == OpenNormalized(file)
             total_pixels == Len(img.data)
             channels == Channels(img.mode)
             header_bits == HeaderBits
             usable_bits == total_pixels * bpp
             available_bits == usable_bits - header_bits
             available_bytes == Max(0, available_bits \div 8)
         IN  [raised |-> FALSE, pixels |-> total_pixels, channels |-> channels,
              bits_per_pixel |-> bpp, available_bytes |-> available_bytes,
              available_bits |-> available_bits, header_bits |-> header_bits,
              image_mode |-> img.mode,
              image_size |-> <<img.width, img.height>>]

\* --------------------------------------------------------- _embed_bits_safe

\* One iteration of "for i in range(0, stop)".  The loop's state is the flat
\* array, bit_idx, and whether "break" has been taken.
EmbedIteration(st, data_bits, bpp, i) ==
    IF st.broken THEN st
    ELSE IF st.bit_idx >= Len(data_bits) THEN [st EXCEPT !.broken = TRUE]
    ELSE LET pixel_idx == i \div bpp
             bit_pos == i % bpp
         IN  IF pixel_idx < Len(st.flat_array)
             THEN LET bit_value == data_bits[st.bit_idx + 1]
                      cleared == ClearBit(st.flat_array[pixel_idx + 1], bit_pos)
                      written == OrBit(cleared, bit_value, bit_pos)
                  IN  [flat_array |-> [st.flat_array EXCEPT ![pixel_idx + 1] = written],
                       bit_idx |-> IF bit_pos = bpp - 1 THEN st.bit_idx + 1
                                   ELSE st.bit_idx,
                       broken |-> FALSE]
             ELSE st

\* The iterations lo .. hi - 1 in order (evaluated by halving the range, which
\* keeps the evaluation shallow; the order of the iterations is the loop's,
\* and no iteration after "break" does anything).
RECURSIVE EmbedLoop(_, _, _, _, _)
EmbedLoop(st, data_bits, bpp, lo, hi) ==
    IF lo >= hi THEN st
    ELSE IF hi = lo + 1 THEN EmbedIteration(st, data_bits, bpp, lo)
    ELSE LET mid == (lo + hi) \div 2
             first == EmbedLoop(st, data_bits, bpp, lo, mid)
         IN  IF first.broken THEN first
             ELSE EmbedLoop(first, data_bits, bpp, mid, hi)

\* The loop of _embed_bits_safe run to its end: the array as the loop left
\* it, and bit_idx, the number of frame bits it went through.
EmbedBitsFinal(flat_array, data_bits, bpp) ==
    LET total_bits == Len(data_bits)
        stop == Min(Len(flat_array) * bpp, total_bits * bpp)
    IN  EmbedLoop([flat_array |-> flat_array, bit_idx |-> 0, broken |-> FALSE],
                  data_bits, bpp, 0, stop)

\* flat_array = np.clip(flat_array, 0, 255), then the reshape and the return
EmbedBitsSafe(flat_array, data_bits, bpp) ==
    LET after == EmbedBitsFinal(flat_array, data_bits, bpp).flat_array
    IN  [k \in 1..Len(after) |-> Clip(after[k])]

\* ------------------------------------------------------------- extract_data

\* The (data, message) pair extract_data returns; data is meaningful only
\* when ok, ok = FALSE standing for the None the code returns.
ExtractFailure(message) ==
    [ok |-> FALSE, data |-> <<>>, body |-> <<>>, message |-> message]

\* An exception raised anywhere in extract_data's try block:
\* except Exception as e: return None, f"Extraction failed: {str(e)}"
ExtractRaised == ExtractFailure("Extraction failed")

\* The header loop never running out of samples: a missing sample reads as 0.
ReadHeaderBitsPadded(flat_array) ==
    [complete |-> TRUE,
     bits |-> [i \in 1..HeaderBits |->
                 IF i <= Len(flat_array) THEN BitAt(flat_array[i], 0) ELSE 0]]

\* for i in range(40):
\*     if i < len(flat_array): header_bits.append(flat_array[i] & 1)
\*     else: return None, "Image too small to contain valid data"
\* complete = FALSE stands for the return inside the loop.
ReadHeaderBits(flat_array) ==
    [complete |-> Len(flat_array) >= HeaderBits,
     bits |-> [i \in 1..Min(HeaderBits, Len(flat_array)) |-> BitAt(flat_array[i], 0)]]

\* The sanity check written with >=, which also rejects the bound itself.
LengthRejectedFromBound(data_length) == data_length >= MaxDataLength

\* if data_length > 10000000: return None, "Invalid data length in header"
LengthRejected(data_length) == data_length > MaxDataLength

\* extract_data ignoring the stored field and reading one bit per sample.
HeaderBitsPerPixelIgnored(metadata) == 1

\* if bits_per_pixel not in [1, 2, 3]: bits_per_pixel = 1
HeaderBitsPerPixel(metadata) ==
    IF (metadata % 8) \in {1, 2, 3} THEN metadata % 8 ELSE 1

\* The size test counting one bit per sample whatever the stored field says.
ImageTooSmallOneBit(total_bits_needed, samples, bpp) == total_bits_needed > samples

\* if total_bits_needed > len(flat_array) * bits_per_pixel
ImageTooSmall(total_bits_needed, samples, bpp) == total_bits_needed > samples * bpp

\* for i in range(40, min(total_bits_needed, len(flat_array) * bits_per_pixel))
ExtractBodyBits(flat_array, bpp, total_bits_needed) ==
    LET stop == Min(total_bits_needed, Len(flat_array) * bpp)
        idx == {i \in HeaderBits..(stop - 1) : (i \div bpp) < Len(flat_array)}
    IN  [k \in 1..Cardinality(idx) |->
            BitAt(flat_array[((HeaderBits + k - 1) \div bpp) + 1],
                  (HeaderBits + k - 1) % bpp)]

\* A failed decompression handing the bytes on as they are.
DecompressOrRaw(c) ==
    IF ZlibValid(c) THEN ZlibDecompress(c) ELSE [ok |-> TRUE, data |-> c]

\* try: extracted_bytes = zlib.decompress(extracted_bytes)
\* except Exception as e: return None, f"Decompression failed: {str(e)}"
Decompress(c) == ZlibDecompress(c)

\* The (data, message) pair extract_data returns, with body the value of
\* extracted_bytes after the trim to data_length (empty when not reached).
ExtractDataOf(file) ==
    IF file = NoImage THEN ExtractRaised
    ELSE
    LET flat_array == OpenNormalized(file).data
        header == ReadHeaderBits(flat_array)
    IN  IF ~header.complete
        THEN ExtractFailure("Image too small to contain valid data")
        ELSE
        LET header_bytes == BitsToBytes(header.bits)
            data_length == UnpackLength(header_bytes)
            metadata == header_bytes[5]
            compression_flag == BitAt(metadata, 7)
            bpp == HeaderBitsPerPixel(metadata)
            total_bits_needed == HeaderBits + data_length * 8
        IN  IF Len(header_bytes) < 5
            THEN ExtractFailure("Invalid stego image: Header corrupted")
            ELSE IF LengthRejected(data_length)
            THEN ExtractFailure("Invalid data length in header")
            ELSE IF ImageTooSmall(total_bits_needed, Len(flat_array), bpp)
            THEN ExtractFailure("Image too small")
            ELSE
            LET data_bits == ExtractBodyBits(flat_array, bpp, total_bits_needed)
                all_bytes == BitsToBytes(data_bits)
                extracted_bytes == SubSeq(all_bytes, 1, Min(data_length, Len(all_bytes)))
            IN  IF compression_flag = 1
                THEN LET z == Decompress(extracted_bytes)
                     IN  IF z.ok
                         THEN [ok |-> TRUE, data |-> z.data, body |-> extracted_bytes,
                               message |-> "Extraction successful"]
                         ELSE [ExtractFailure("Decompression failed")
                                  EXCEPT !.body = extracted_bytes]
                ELSE [ok |-> TRUE, data |-> extracted_bytes, body |-> extracted_bytes,
                      message |-> "Extraction successful"]

\* ------------------------------------------------------------------ inputs

\* Sample j (0-based, in file order) of a cover image.
CoverSample(j) == (37 * j + 11) % 256

MakeImage(mode, width, height) ==
    [mode |-> mode, width |-> width, height |-> height,
     data |-> [k \in 1..(width * height * Channels(mode)) |-> CoverSample(k - 1)]]

Modes == {"L", "RGB", "RGBA"}

Covers ==
    {MakeImage(m, w, h) : m \in Modes, w \in 1..MaxWidth, h \in 1..MaxHeight}
    \cup {NoImage}

\* Byte k (0-based) of a payload whose bytes all differ from their neighbours.
RampByte(k) == (75 + 180 * k) % 256

RampPayload(n) == [k \in 1..n |-> RampByte(k - 1)]

ConstPayload(n) == [k \in 1..n |-> 75]

\* Short payloads of every length, and payloads at and just above the
\* compression threshold: one that the codec shrinks, one that it does not.
Payloads ==
    {RampPayload(n) : n \in 0..MaxPayloadLen}
    \cup {ConstPayload(n) : n \in {CompressionThreshold, CompressionThreshold + 1}}
    \cup {RampPayload(CompressionThreshold + 1)}

BitsInputs == (-1)..MaxBitsInput

\* ------------------------------------------------------------------- state

VARIABLES
    pc,               \* position of the call in progress
    cover,            \* the file at cover_image_path / image_path
    secret_data,      \* embed_data's secret_data argument
    bits_per_pixel,   \* the bits_per_pixel argument
    use_compression,  \* embed_data's use_compression argument
    img_array,        \* embed_data: the opened, normalised cover
    compression_flag, \* embed_data: compression_flag
    data_to_hide,     \* embed_data: header + (possibly compressed) secret_data
    capacity_info,    \* the dict calculate_capacity returned
    stego_array,      \* embed_data: the flat array after _embed_bits_safe
    output_file,      \* the file at output_path / stego_image_path
    embed_result,     \* what embed_data returned
    extract_result,   \* what extract_data returned
    conv_data,        \* _bytes_to_bits: its argument data
    conv_bits,        \* the list of bits returned by _bytes_to_bits or passed
                      \* to _bits_to_bytes
    conv_bytes,       \* what _bits_to_bytes returned
    engine,           \* the SteganographyEngine's attributes
    files,            \* concurrent calls: the image file at each path
    initial_files,    \* concurrent calls: the files before the calls began
    calls,            \* concurrent calls: each thread's call, its arguments,
                      \* position and locals
    clock,            \* database: CURRENT_TIMESTAMP, in whole seconds
    operations,       \* database: the rows of table operations, in insertion
                      \* order
    history,          \* database: what get_operation_history returned last
    sessions,         \* database: the rows of table sessions, in insertion
                      \* order
    file_hashes,      \* database: table file_hashes, file_path -> file_hash
    db_locked,        \* database: a connection that was never closed holds
                      \* the write lock
    disk_files,       \* the content of the file at each path ("missing" when
                      \* there is none)
    db_result,        \* the DatabaseManager call made last and what it
                      \* returned
    verify_result     \* what verify_integrity returned

\* The arguments, locals and files of a calculate_capacity, embed_data or
\* extract_data call.
callVars == << cover, secret_data, bits_per_pixel, use_compression, img_array,
               compression_flag, data_to_hide, capacity_info, stego_array,
               output_file, embed_result, extract_result >>

\* The arguments and results of the bit conversions called on their own.
convVars == << conv_data, conv_bits, conv_bytes >>

\* The DatabaseManager's database.
dbVars == << clock, operations, history, sessions, file_hashes, db_locked,
            disk_files, db_result >>

\* Several threads calling one engine.
concVars == << engine, files, initial_files, calls >>

\* The result of verify_integrity.
verifyVars == << verify_result >>

\* What a step of calculate_capacity, embed_data or extract_data leaves alone.
otherVars == << convVars, concVars, dbVars, verifyVars >>

vars == << pc, callVars, otherVars >>

\* No bit conversion is being called on its own.
NoConversion ==
    /\ conv_data = <<>>
    /\ conv_bits = <<>>
    /\ conv_bytes = <<>>

\* __init__: self.encryption_key = encryption_key (None by default),
\* self.max_threads = 4, self.compression_level = 6
NewEngine ==
    [encryption_key |-> "None", max_threads |-> DefaultMaxThreads,
     compression_level |-> DefaultCompressionLevel]

\* An engine with no concurrent callers.
NoThreads ==
    /\ engine = NewEngine
    /\ files = <<>>
    /\ initial_files = <<>>
    /\ calls = <<>>

\* _init_database on a new file: the tables exist and are empty.
EmptyTables ==
    /\ clock = 0
    /\ operations = <<>>
    /\ history = <<>>
    /\ sessions = <<>>
    /\ file_hashes = <<>>
    /\ db_locked = FALSE
    /\ db_result = [call |-> "__init__", arg |-> "", value |-> "None"]

NoDatabase == EmptyTables /\ disk_files = <<>>

OthersIdle == NoConversion /\ NoThreads /\ NoDatabase

NoCapacity == CalculateCapacity(NoImage, 0)

\* verify_integrity has not returned: (is_valid, message), and the mean the
\* message reports as the numerator mse_sum over the sample count.
NoVerifyResult == [returned |-> FALSE, is_valid |-> FALSE, message |-> "",
                   mse_sum |-> 0, samples |-> 0]

NoEmbedResult == [returned |-> FALSE, success |-> FALSE, message |-> "",
                  available |-> 0, required |-> 0]

NoExtractResult ==
    [returned |-> FALSE, ok |-> FALSE, data |-> <<>>, body |-> <<>>, message |-> ""]

EmbedReturn(success, message, available, required) ==
    [returned |-> TRUE, success |-> success, message |-> message,
     available |-> available, required |-> required]

\* embed_data without its handler: the exception leaves the call, which
\* returns nothing.
EmbedRaisedUncaught == NoEmbedResult

\* An exception raised anywhere in embed_data's try block:
\* except Exception as e: return False, f"Embedding failed: {str(e)}"
EmbedRaised == EmbedReturn(FALSE, "Embedding failed", 0, 0)

Locals ==
    /\ img_array = NoImage
    /\ compression_flag = 0
    /\ data_to_hide = <<>>
    /\ capacity_info = NoCapacity
    /\ stego_array = <<>>
    /\ embed_result = NoEmbedResult
    /\ extract_result = NoExtractResult
    /\ verify_result = NoVerifyResult

\* A call of embed_data on a path where no output exists yet.
Init ==
    /\ pc = "embed_validate"
    /\ cover \in Covers
    /\ secret_data \in Payloads
    /\ bits_per_pixel \in BitsInputs
    /\ use_compression \in BOOLEAN
    /\ output_file = NoImage
    /\ Locals
    /\ OthersIdle

\* -------------------------------------------------------------- embed_data

\* The validation written as an upper limit only.
ValidBitsPerPixelUpTo3(bpp) == bpp <= 3

\* if bits_per_pixel not in [1, 2, 3]: return False, "Bits per pixel must be ..."
ValidBitsPerPixel(bpp) == bpp \in {1, 2, 3}

EmbedValidate ==
    /\ pc = "embed_validate"
    /\ \/ /\ ~ValidBitsPerPixel(bits_per_pixel)
          /\ embed_result' = EmbedReturn(FALSE, "Bits per pixel must be 1, 2, or 3", 0, 0)
          /\ pc' = "done"
       \/ /\ ValidBitsPerPixel(bits_per_pixel)
          /\ embed_result' = embed_result
          /\ pc' = "embed_open"
    /\ UNCHANGED << cover, secret_data, bits_per_pixel, use_compression, img_array,
                    compression_flag, data_to_hide, capacity_info, stego_array,
                    output_file, extract_result >>
    /\ UNCHANGED otherVars

\* with Image.open(cover_image_path) as img: ...; an exception reaches
\* "except Exception as e: return False, f'Embedding failed: ...'"
EmbedOpen ==
    /\ pc = "embed_open"
    /\ \/ /\ cover = NoImage
          /\ embed_result' = EmbedRaised
          /\ img_array' = img_array
          /\ pc' = "done"
       \/ /\ cover # NoImage
          /\ img_array' = OpenNormalized(cover)
          /\ embed_result' = embed_result
          /\ pc' = "embed_frame"
    /\ UNCHANGED << cover, secret_data, bits_per_pixel, use_compression,
                    compression_flag, data_to_hide, capacity_info, stego_array,
                    output_file, extract_result >>
    /\ UNCHANGED otherVars

\* The decision compressing payloads of 100 bytes too, and keeping the
\* compressed form whenever it is not longer.
CompressionDecisionFromThreshold(data, use, level) ==
    IF use /\ Len(data) >= CompressionThreshold
    THEN LET compressed_data == ZlibCompressAt(data, level)
         IN  IF Len(compressed_data) <= Len(data)
             THEN [flag |-> 1, body |-> compressed_data]
             ELSE [flag |-> 0, body |-> data]
    ELSE [flag |-> 0, body |-> data]

\* The compression decision, [flag, body], of an engine whose
\* compression_level is level.
CompressionDecisionAt(data, use, level) ==
    IF use /\ Len(data) > CompressionThreshold
    THEN LET compressed_data == ZlibCompressAt(data, level)
         IN  IF Len(compressed_data) < Len(data)
             THEN [flag |-> 1, body |-> compressed_data]
             ELSE [flag |-> 0, body |-> data]
    ELSE [flag |-> 0, body |-> data]

\* The compression decision: [flag, body].
CompressionDecision(data, use) ==
    CompressionDecisionAt(data, use, DefaultCompressionLevel)

\* metadata = (compression_flag << 7) | (bits_per_pixel & 0x07)
Metadata(flag, bpp) == flag * 128 + (bpp % 8)

\* header = struct.pack('>IB', data_length, metadata); header + secret_data
BuildFrame(body, flag, bpp) == PackHeader(Len(body), Metadata(flag, bpp)) \o body

EmbedBuildFrame ==
    /\ pc = "embed_frame"
    /\ LET d == CompressionDecision(secret_data, use_compression)
       IN  /\ compression_flag' = d.flag
           /\ data_to_hide' = BuildFrame(d.body, d.flag, bits_per_pixel)
    /\ pc' = "embed_capacity"
    /\ UNCHANGED << cover, secret_data, bits_per_pixel, use_compression, img_array,
                    capacity_info, stego_array, output_file, embed_result,
                    extract_result >>
    /\ UNCHANGED otherVars

\* The capacity test comparing a byte count with a bit count.
CapacityExceededUnits(required_bits, info) ==
    required_bits \div 8 > info.available_bits

\* The capacity test comparing the body's bytes with available_bytes.
CapacityExceededBytes(required_bits, info) ==
    (required_bits - HeaderBits) \div 8 > info.available_bytes

\* if required_bits > capacity_info['available_bits']
CapacityExceeded(required_bits, info) == required_bits > info.available_bits

\* capacity_info = self.calculate_capacity(cover_image_path, bits_per_pixel)
\* followed by the capacity test.  The cover was opened a moment ago, so the
\* ValueError of calculate_capacity is handled like any other exception.
EmbedCheckCapacity ==
    /\ pc = "embed_capacity"
    /\ LET info == CalculateCapacity(cover, bits_per_pixel)
           required_bits == Len(BytesToBits(data_to_hide))
       IN  /\ capacity_info' = info
           /\ \/ /\ info.raised
                 /\ embed_result' = EmbedRaised
                 /\ pc' = "done"
              \/ /\ ~info.raised
                 /\ CapacityExceeded(required_bits, info)
                 /\ embed_result' = EmbedReturn(FALSE, "Data too large",
                                                info.available_bytes, Len(data_to_hide))
                 /\ pc' = "done"
              \/ /\ ~info.raised
                 /\ ~CapacityExceeded(required_bits, info)
                 /\ embed_result' = embed_result
                 /\ pc' = "embed_bits"
    /\ UNCHANGED << cover, secret_data, bits_per_pixel, use_compression, img_array,
                    compression_flag, data_to_hide, stego_array, output_file,
                    extract_result >>
    /\ UNCHANGED otherVars

\* stego_array = self._embed_bits_safe(img_array, data_bits, bits_per_pixel)
\* stego_array = np.clip(stego_array, 0, 255).astype(np.uint8)
EmbedBits ==
    /\ pc = "embed_bits"
    /\ stego_array' =
          LET embedded == EmbedBitsSafe(img_array.data, BytesToBits(data_to_hide),
                                        bits_per_pixel)
          IN  [k \in 1..Len(embedded) |-> Clip(embedded[k])]
    /\ pc' = "embed_save"
    /\ UNCHANGED << cover, secret_data, bits_per_pixel, use_compression, img_array,
                    compression_flag, data_to_hide, capacity_info, output_file,
                    embed_result, extract_result >>
    /\ UNCHANGED otherVars

\* stego_image = Image.fromarray(stego_array, mode='RGB')
\* stego_image.save(output_path, format='PNG')
\* return True, f"Embedding successful! ... Capacity used:
\*     {(required_bits/capacity_info['available_bits'])*100:.1f}% ..."
\* The division raises ZeroDivisionError when available_bits is 0, which
\* reaches "except Exception", after the file has been written.
EmbedSave ==
    /\ pc = "embed_save"
    /\ output_file' = FromArrayRGB(img_array.width, img_array.height, stego_array)
    /\ \/ /\ capacity_info.available_bits = 0
          /\ embed_result' = EmbedRaised
          /\ pc' = "done"
       \/ /\ capacity_info.available_bits # 0
          /\ embed_result' = EmbedReturn(TRUE, "Embedding successful",
                                         capacity_info.available_bytes,
                                         Len(data_to_hide) - 5)
          /\ pc' = "extract"
    /\ UNCHANGED << cover, secret_data, bits_per_pixel, use_compression, img_array,
                    compression_flag, data_to_hide, capacity_info, stego_array,
                    extract_result >>
    /\ UNCHANGED otherVars

\* ------------------------------------------------------------ extract_data

\* extract_data(stego_image_path), the file at that path being output_file.
ExtractData ==
    /\ pc = "extract"
    /\ LET r == ExtractDataOf(output_file)
       IN  extract_result' = [returned |-> TRUE, ok |-> r.ok, data |-> r.data,
                              body |-> r.body, message |-> r.message]
    /\ pc' = "done"
    /\ UNCHANGED << cover, secret_data, bits_per_pixel, use_compression, img_array,
                    compression_flag, data_to_hide, capacity_info, stego_array,
                    output_file, embed_result >>
    /\ UNCHANGED otherVars

Next ==
    \/ EmbedValidate
    \/ EmbedOpen
    \/ EmbedBuildFrame
    \/ EmbedCheckCapacity
    \/ EmbedBits
    \/ EmbedSave
    \/ ExtractData

\* embed_data on a cover, then extract_data on the image it wrote.
Spec == Init /\ [][Next]_vars

\* ------------------------------------------------- calculate_capacity alone

\* The 100x100 RGB image of the test suite (create_test_image).
ScenarioCover == MakeImage("RGB", 100, 100)

\* A call of the public calculate_capacity(image_path, bits_per_pixel).
InitCapacity ==
    /\ pc = "capacity"
    /\ cover \in Covers \cup {ScenarioCover}
    /\ bits_per_pixel \in BitsInputs
    /\ secret_data = <<>>
    /\ use_compression = FALSE
    /\ output_file = NoImage
    /\ Locals
    /\ OthersIdle

CalculateCapacityCall ==
    /\ pc = "capacity"
    /\ capacity_info' = CalculateCapacity(cover, bits_per_pixel)
    /\ pc' = "done"
    /\ UNCHANGED << cover, secret_data, bits_per_pixel, use_compression, img_array,
                    compression_flag, data_to_hide, stego_array, output_file,
                    embed_result, extract_result >>
    /\ UNCHANGED otherVars

NextCapacity == CalculateCapacityCall

CapSpec == InitCapacity /\ [][NextCapacity]_vars

\* ------------------------------------------------------ extract_data alone

\* img with the least significant bits of its first 40 samples (fewer when
\* it has fewer) set to the bits of a frame header.
WithHeader(img, data_length, metadata) ==
    LET header_bits == BytesToBits(PackHeader(data_length, metadata))
    IN  [img EXCEPT !.data =
            [k \in 1..Len(img.data) |->
                IF k <= HeaderBits
                THEN ClearBit(img.data[k], 0) + header_bits[k]
                ELSE img.data[k]]]

HeaderLengths == (0..MaxHeaderLen) \cup {MaxDataLength, MaxDataLength + 1}

\* Metadata bytes: compression flag, and every value of the low three bits.
HeaderMetadata == {flag * 128 + low : flag \in {0, 1}, low \in 0..7}

\* Sample x with slot s (s < bpp) set to the body bit that extract_data reads
\* from it: frame bit i sits in slot i mod bpp of sample i div bpp.
SetSlot(x, s, bpp, i, body_bits) ==
    IF s < bpp /\ i >= HeaderBits /\ i < HeaderBits + Len(body_bits)
    THEN ClearBit(x, s) + body_bits[i - HeaderBits + 1] * Pow2(s)
    ELSE x

\* img carrying a frame as another encoder would have written it: the body's
\* bits where extract_data looks for them, then the header over the low bits
\* of the first 40 samples.
WithFrame(img, body, metadata) ==
    LET bpp == HeaderBitsPerPixel(metadata)
        body_bits == BytesToBits(body)
        filled == [img EXCEPT !.data =
                     [k \in 1..Len(img.data) |->
                        SetSlot(SetSlot(SetSlot(img.data[k],
                                                0, bpp, (k - 1) * bpp, body_bits),
                                        1, bpp, (k - 1) * bpp + 1, body_bits),
                                2, bpp, (k - 1) * bpp + 2, body_bits)]]
    IN  WithHeader(filled, Len(body), metadata)

\* Bodies of frames whose compression flag is set: codec output for the empty
\* payload and for two equal bytes, and byte strings that are not codec
\* output (a zero count, a cut pair, a wrong first byte).
FrameBodies == { <<120>>, <<120, 2, 75>>, <<120, 0, 75>>, <<120, 2>>, <<119, 2, 75>> }

\* The files extract_data is given: any image at all, with or without a
\* well-formed header in its low bits, with or without a body behind it, or
\* no image.
StegoInputs ==
    Covers \cup
    {WithHeader(c, n, m) : c \in Covers \ {NoImage}, n \in HeaderLengths,
                           m \in HeaderMetadata} \cup
    {WithFrame(c, b, flag * 128 + low) :
        c \in {c \in Covers \ {NoImage} : Len(c.data) >= HeaderBits},
        b \in FrameBodies, flag \in {0, 1}, low \in 1..3}

\* A call of extract_data(stego_image_path).
InitExtract ==
    /\ pc = "extract"
    /\ output_file \in StegoInputs
    /\ cover = NoImage
    /\ bits_per_pixel = 1
    /\ secret_data = <<>>
    /\ use_compression = FALSE
    /\ Locals
    /\ OthersIdle

NextExtract == ExtractData

ExtractSpec == InitExtract /\ [][NextExtract]_vars

\* ------------------------------------------- embed_data or extract_data

\* A call of embed_data (followed, when it succeeds, by extract_data on its
\* output) or a call of extract_data on any file.
InitCall == Init \/ InitExtract

CallSpec == InitCall /\ [][Next]_vars

\* ------------------------------------------- the bit conversions alone

\* Byte values the conversions are called with.
ConvByteValues == {0, 1, 2, 3, 127, 128, 170, 254, 255}

\* All byte strings of at most n of these values.
ByteStrings(n) == UNION {[1..k -> ConvByteValues] : k \in 0..n}

\* All lists of at most n bits.
BitLists(n) == UNION {[1..k -> {0, 1}] : k \in 0..n}

\* Either _bytes_to_bits(data) followed by _bits_to_bytes on the list it
\* returned, or _bits_to_bytes on any list of bits.
InitConv ==
    /\ \/ /\ pc = "bytes_to_bits"
          /\ conv_data \in ByteStrings(MaxConvLen)
          /\ conv_bits = <<>>
       \/ /\ pc = "bits_to_bytes"
          /\ conv_data = <<>>
          /\ conv_bits \in BitLists(MaxBitListLen)
    /\ conv_bytes = <<>>
    /\ cover = NoImage
    /\ secret_data = <<>>
    /\ bits_per_pixel = 1
    /\ use_compression = FALSE
    /\ output_file = NoImage
    /\ Locals
    /\ NoThreads
    /\ NoDatabase

\* bits = self._bytes_to_bits(data)
BytesToBitsCall ==
    /\ pc = "bytes_to_bits"
    /\ conv_bits' = BytesToBits(conv_data)
    /\ pc' = "round_trip_back"
    /\ UNCHANGED << callVars, verifyVars, conv_data, conv_bytes, concVars, dbVars >>

\* self._bits_to_bytes(bits); the padding is appended to the caller's list.
BitsToBytesCall ==
    /\ pc \in {"round_trip_back", "bits_to_bytes"}
    /\ conv_bytes' = BitsToBytes(conv_bits)
    /\ conv_bits' = IF conv_bits = <<>> THEN conv_bits ELSE PadBits(conv_bits)
    /\ pc' = IF pc = "round_trip_back" THEN "round_trip_done" ELSE "bits_done"
    /\ UNCHANGED << callVars, verifyVars, conv_data, concVars, dbVars >>

NextConv ==
    \/ BytesToBitsCall
    \/ BitsToBytesCall

ConvSpec == InitConv /\ [][NextConv]_vars

\* ------------------------------------------- several threads, one engine

\* The threads calling the engine at the same time.
Threads == 1..NumThreads

\* Each thread's call has an image file of its own to read ("in": the cover
\* of embed_data, the stego image of extract_data) and, for embed_data, an
\* output path of its own ("out").
Paths == Threads \X {"in", "out"}

\* The calls a thread makes: [op, image, secret_data, bits_per_pixel,
\* use_compression], image being the file at the path it reads.
ConcChoices ==
    LET big == MakeImage("RGB", MaxWidth, MaxHeight)
    IN  { [op |-> "embed", image |-> big, secret_data |-> ConstPayload(101),
           bits_per_pixel |-> 1, use_compression |-> TRUE],
          [op |-> "embed", image |-> big, secret_data |-> RampPayload(2),
           bits_per_pixel |-> 2, use_compression |-> FALSE],
          [op |-> "embed", image |-> NoImage, secret_data |-> RampPayload(2),
           bits_per_pixel |-> 1, use_compression |-> FALSE],
          [op |-> "extract", image |-> WithFrame(big, <<120, 2, 75>>, 129),
           secret_data |-> <<>>, bits_per_pixel |-> 1, use_compression |-> FALSE] }

\* Thread t's call at its entry.
StartCall(t, choice) ==
    [op |-> choice.op,
     pc |-> IF choice.op = "embed" THEN "embed_validate" ELSE "extract",
     path_in |-> <<t, "in">>, path_out |-> <<t, "out">>,
     secret_data |-> choice.secret_data,
     bits_per_pixel |-> choice.bits_per_pixel,
     use_compression |-> choice.use_compression,
     img_array |-> NoImage, compression_flag |-> 0, data_to_hide |-> <<>>,
     capacity_info |-> NoCapacity, stego_array |-> <<>>,
     embed_result |-> NoEmbedResult, extract_result |-> NoExtractResult]

\* A call that assigns the engine's compression_level from its own
\* use_compression argument.
EngineLevelSetByCall(eng, c) ==
    [eng EXCEPT !.compression_level = IF c.use_compression THEN 6 ELSE 0]

\* The engine's attributes after a step of call c: neither embed_data nor
\* extract_data, nor anything they call, assigns to an attribute of self.
EngineAfterStep(eng, c) == eng

\* One step of call c, with the files fs and the engine attributes eng as
\* they are when the step runs: the call and the files after it.  The steps
\* are those of embed_data and extract_data above, one access to a file or
\* to an engine attribute per step.
CallStep(c, fs, eng) ==
    CASE c.pc = "embed_validate" ->
            [files |-> fs,
             call |-> IF ValidBitsPerPixel(c.bits_per_pixel)
                      THEN [c EXCEPT !.pc = "embed_open"]
                      ELSE [c EXCEPT !.pc = "done",
                              !.embed_result =
                                 EmbedReturn(FALSE, "Bits per pixel must be 1, 2, or 3",
                                             0, 0)]]
      [] c.pc = "embed_open" ->
            [files |-> fs,
             call |-> IF fs[c.path_in] = NoImage
                      THEN [c EXCEPT !.pc = "done", !.embed_result = EmbedRaised]
                      ELSE [c EXCEPT !.pc = "embed_frame",
                              !.img_array = OpenNormalized(fs[c.path_in])]]
      [] c.pc = "embed_frame" ->
            LET d == CompressionDecisionAt(c.secret_data, c.use_compression,
                                           eng.compression_level)
            IN  [files |-> fs,
                 call |-> [c EXCEPT !.pc = "embed_capacity",
                             !.compression_flag = d.flag,
                             !.data_to_hide = BuildFrame(d.body, d.flag, c.bits_per_pixel)]]
      [] c.pc = "embed_capacity" ->
            LET info == CalculateCapacity(fs[c.path_in], c.bits_per_pixel)
                required_bits == Len(BytesToBits(c.data_to_hide))
            IN  [files |-> fs,
                 call |-> IF info.raised
                          THEN [c EXCEPT !.pc = "done", !.capacity_info = info,
                                  !.embed_result = EmbedRaised]
                          ELSE IF CapacityExceeded(required_bits, info)
                          THEN [c EXCEPT !.pc = "done", !.capacity_info = info,
                                  !.embed_result =
                                     EmbedReturn(FALSE, "Data too large",
                                                 info.available_bytes,
                                                 Len(c.data_to_hide))]
                          ELSE [c EXCEPT !.pc = "embed_bits", !.capacity_info = info]]
      [] c.pc = "embed_bits" ->
            LET embedded == EmbedBitsSafe(c.img_array.data, BytesToBits(c.data_to_hide),
                                          c.bits_per_pixel)
            IN  [files |-> fs,
                 call |-> [c EXCEPT !.pc = "embed_save",
                             !.stego_array = [k \in 1..Len(embedded) |->
                                                 Clip(embedded[k])]]]
      [] c.pc = "embed_save" ->
            [files |-> [fs EXCEPT ![c.path_out] =
                           FromArrayRGB(c.img_array.width, c.img_array.height,
                                        c.stego_array)],
             call |-> [c EXCEPT !.pc = "done",
                         !.embed_result =
                            IF c.capacity_info.available_bits = 0
                            THEN EmbedRaised
                            ELSE EmbedReturn(TRUE, "Embedding successful",
                                             c.capacity_info.available_bytes,
                                             Len(c.data_to_hide) - 5)]]
      [] c.pc = "extract" ->
            LET r == ExtractDataOf(fs[c.path_in])
            IN  [files |-> fs,
                 call |-> [c EXCEPT !.pc = "done",
                             !.extract_result =
                                [returned |-> TRUE, ok |-> r.ok, data |-> r.data,
                                 body |-> r.body, message |-> r.message]]]
      [] OTHER -> [files |-> fs, call |-> c]

\* Call c run from its current position to its return with no other call
\* running: the call, the files and the engine attributes at the end.
RECURSIVE RunAlone(_, _, _)
RunAlone(c, fs, eng) ==
    IF c.pc = "done" THEN [call |-> c, files |-> fs, engine |-> eng]
    ELSE LET r == CallStep(c, fs, eng)
         IN  RunAlone(r.call, r.files, EngineAfterStep(eng, c))

\* Every thread is about to make one call on the same engine.
InitConc ==
    /\ pc = "threads"
    /\ \E choice \in [Threads -> ConcChoices] :
          /\ calls = [t \in Threads |-> StartCall(t, choice[t])]
          /\ files = [p \in Paths |->
                        IF p[2] = "in" THEN choice[p[1]].image ELSE NoImage]
    /\ initial_files = files
    /\ engine = NewEngine
    /\ cover = NoImage
    /\ secret_data = <<>>
    /\ bits_per_pixel = 1
    /\ use_compression = FALSE
    /\ output_file = NoImage
    /\ Locals
    /\ NoConversion
    /\ NoDatabase

\* Some thread's call takes its next step.
ThreadStep ==
    \E t \in Threads :
        /\ calls[t].pc # "done"
        /\ LET r == CallStep(calls[t], files, engine)
           IN  /\ calls' = [calls EXCEPT ![t] = r.call]
               /\ files' = r.files
        /\ engine' = EngineAfterStep(engine, calls[t])
        /\ UNCHANGED << pc, callVars, verifyVars, convVars, initial_files, dbVars >>

NextConc == ThreadStep

ConcSpec == InitConc /\ [][NextConc]_vars

\* ---------------------------------------------------- DatabaseManager

\* The arguments log_operation is called with (the columns that tell rows
\* apart): a successful embed, a failed extract.
LogArguments ==
    { [operation_type |-> "embed", success |-> TRUE],
      [operation_type |-> "extract", success |-> FALSE] }

\* The limit arguments of get_operation_history: one row, two rows, the
\* default of 100.
HistoryLimits == {1, 2, 100}

\* DatabaseManager(db_path) on a new file.
InitDb ==
    /\ pc = "database"
    /\ NoDatabase
    /\ cover = NoImage
    /\ secret_data = <<>>
    /\ bits_per_pixel = 1
    /\ use_compression = FALSE
    /\ output_file = NoImage
    /\ Locals
    /\ NoConversion
    /\ NoThreads

\* A second goes by: CURRENT_TIMESTAMP has a resolution of one second.
Tick ==
    /\ pc = "database"
    /\ clock < MaxClock
    /\ clock' = clock + 1
    /\ UNCHANGED << pc, callVars, verifyVars, convVars, concVars, operations, history,
                    sessions, file_hashes, db_locked, disk_files, db_result >>

\* What a DatabaseManager call returned: value is "True", "False", "None",
\* or "raised" when an exception left the call.
DbReturn(call, arg, value) == [call |-> call, arg |-> arg, value |-> value]

\* log_operation(operation_type, ..., success, ...): INSERT INTO operations;
\* id is AUTOINCREMENT and timestamp DEFAULT CURRENT_TIMESTAMP.  While
\* another connection holds the write lock, execute raises
\* sqlite3.OperationalError (database is locked), which nothing catches.
LogOperation ==
    /\ pc = "database"
    /\ Len(operations) < MaxOperations
    /\ \E a \in LogArguments :
          /\ operations' =
                IF db_locked THEN operations
                ELSE Append(operations,
                            [id |-> Len(operations) + 1, timestamp |-> clock,
                             operation_type |-> a.operation_type,
                             success |-> a.success])
          /\ db_result' = DbReturn("log_operation", a.operation_type,
                                   IF db_locked THEN "raised" ELSE "None")
    /\ UNCHANGED << pc, callVars, verifyVars, convVars, concVars, clock, history, sessions,
                    file_hashes, db_locked, disk_files >>

\* The results SELECT * FROM rows ORDER BY timestamp DESC LIMIT n can give:
\* the rows in an order of non-increasing timestamp, cut to n.  ORDER BY
\* settles nothing between rows of equal timestamp, so each order of such
\* rows is a possible result.
OrderedByTimestampDesc(rows, n) ==
    LET m == Len(rows)
        orders == {f \in [1..m -> 1..m] :
                     /\ \A i, j \in 1..m : i # j => f[i] # f[j]
                     /\ \A i \in 1..(m - 1) :
                           rows[f[i]].timestamp >= rows[f[i + 1]].timestamp}
    IN  { [k \in 1..Min(n, m) |-> rows[f[k]]] : f \in orders }

\* get_operation_history(limit)
GetOperationHistory ==
    /\ pc = "database"
    /\ \E limit \in HistoryLimits :
          history' \in OrderedByTimestampDesc(operations, limit)
    /\ UNCHANGED << pc, callVars, verifyVars, convVars, concVars, clock, operations, sessions,
                    file_hashes, db_locked, disk_files, db_result >>

NextDb ==
    \/ Tick
    \/ LogOperation
    \/ GetOperationHistory

DbSpec == InitDb /\ [][NextDb]_vars

\* ------------------------------------------ DatabaseManager: sessions

\* The session_id arguments.
SessionIds == {"s1", "s2"}

\* The row of table sessions for session_id, or none.
SessionRows(session_id) ==
    {k \in 1..Len(sessions) : sessions[k].session_id = session_id}

\* start_session(session_id): INSERT INTO sessions, inside try ... except:
\* return False.  Three outcomes: [value, sessions, db_locked].
\*  - another connection holds the write lock: execute raises
\*    OperationalError, the bare except returns False;
\*  - session_id is present: the UNIQUE constraint raises IntegrityError and
\*    the bare except returns False.  conn.close() is skipped, and the
\*    connection, with the transaction the INSERT began, stays open and
\*    keeps the write lock for as long as the object lives;
\*  - otherwise a row is added (end_time NULL, written <<>>), the
\*    transaction committed and the connection closed.
StartSessionOutcome(session_id) ==
    IF db_locked
    THEN [value |-> "False", sessions |-> sessions, db_locked |-> TRUE]
    ELSE IF SessionRows(session_id) # {}
    THEN [value |-> "False", sessions |-> sessions, db_locked |-> TRUE]
    ELSE [value |-> "True",
          sessions |-> Append(sessions,
                              [id |-> Len(sessions) + 1, session_id |-> session_id,
                               start_time |-> clock, end_time |-> <<>>]),
          db_locked |-> FALSE]

StartSession ==
    /\ pc = "database"
    /\ \E session_id \in SessionIds :
          LET r == StartSessionOutcome(session_id)
          IN  /\ sessions' = r.sessions
              /\ db_locked' = r.db_locked
              /\ db_result' = DbReturn("start_session", session_id, r.value)
    /\ UNCHANGED << pc, callVars, verifyVars, convVars, concVars, clock, operations, history,
                    file_hashes, disk_files >>

\* end_session(session_id): UPDATE sessions SET end_time = CURRENT_TIMESTAMP
\* WHERE session_id = ?  No try: a locked database raises to the caller.
EndSession ==
    /\ pc = "database"
    /\ \E session_id \in SessionIds :
          /\ sessions' =
                IF db_locked THEN sessions
                ELSE [k \in 1..Len(sessions) |->
                         IF sessions[k].session_id = session_id
                         THEN [sessions[k] EXCEPT !.end_time = <<clock>>]
                         ELSE sessions[k]]
          /\ db_result' = DbReturn("end_session", session_id,
                                   IF db_locked THEN "raised" ELSE "None")
    /\ UNCHANGED << pc, callVars, verifyVars, convVars, concVars, clock, operations, history,
                    file_hashes, db_locked, disk_files >>

\* The interpreter frees the connection start_session left open: the
\* transaction is rolled back and the lock released.  When that happens is
\* up to the garbage collector.
CollectGarbage ==
    /\ pc = "database"
    /\ db_locked
    /\ db_locked' = FALSE
    /\ UNCHANGED << pc, callVars, verifyVars, convVars, concVars, clock, operations, history,
                    sessions, file_hashes, disk_files, db_result >>

NextSession ==
    \/ Tick
    \/ StartSession
    \/ EndSession
    \/ CollectGarbage

SessionSpec == InitDb /\ [][NextSession]_vars

\* ------------------------------------------ DatabaseManager: file hashes

\* The file_path arguments.
FilePaths == {"f1", "f2"}

\* What a file holds; "missing" when no file exists at the path.
FileContents == {"c1", "c2"}

\* hashlib.sha256 of a file's content, as a hex digest: different contents,
\* different digests.
Sha256(content) == IF content = "c1" THEN "h1" ELSE "h2"

\* The file_hash arguments: digests of the contents, and a value that is the
\* digest of none of them ('a' * 64 in the tests).
HashArguments == {"h1", "h2", "mock"}

\* DatabaseManager(db_path) on a new file, with any files on disk.
InitHash ==
    /\ pc = "database"
    /\ EmptyTables
    /\ disk_files \in [FilePaths -> FileContents \cup {"missing"}]
    /\ cover = NoImage
    /\ secret_data = <<>>
    /\ bits_per_pixel = 1
    /\ use_compression = FALSE
    /\ output_file = NoImage
    /\ Locals
    /\ NoConversion
    /\ NoThreads

\* Somebody writes, rewrites or deletes a file.
WriteFile ==
    /\ pc = "database"
    /\ \E file_path \in FilePaths, content \in FileContents \cup {"missing"} :
          /\ disk_files[file_path] # content
          /\ disk_files' = [disk_files EXCEPT ![file_path] = content]
    /\ UNCHANGED << pc, callVars, verifyVars, convVars, concVars, clock, operations, history,
                    sessions, file_hashes, db_locked, db_result >>

\* store_file_hash(file_path, file_hash): INSERT OR REPLACE INTO file_hashes
StoreFileHash ==
    /\ pc = "database"
    /\ \E file_path \in FilePaths, file_hash \in HashArguments :
          /\ file_hashes' =
                IF db_locked THEN file_hashes
                ELSE [q \in DOMAIN file_hashes \cup {file_path} |->
                         IF q = file_path THEN file_hash ELSE file_hashes[q]]
          /\ db_result' = DbReturn("store_file_hash", file_path,
                                   IF db_locked THEN "raised" ELSE "None")
    /\ UNCHANGED << pc, callVars, verifyVars, convVars, concVars, clock, operations, history,
                    sessions, db_locked, disk_files >>

\* The dict verify_file_integrity returns; a key the dict does not have is
\* written "absent" (reading it raises KeyError).
IntegrityResult(verified, error, current_hash, stored_hash, match) ==
    [verified |-> verified, error |-> error, current_hash |-> current_hash,
     stored_hash |-> stored_hash, match |-> match]

\* verify_file_integrity(file_path)
VerifyFileIntegrityOf(file_path) ==
    IF disk_files[file_path] = "missing"
    THEN IntegrityResult("False", "File not found", "absent", "absent", "absent")
    ELSE LET current_hash == Sha256(disk_files[file_path])
         IN  IF file_path \in DOMAIN file_hashes
             THEN LET stored_hash == file_hashes[file_path]
                      verified == IF current_hash = stored_hash
                                  THEN "True" ELSE "False"
                  IN  IntegrityResult(verified, "absent", current_hash,
                                      stored_hash, verified)
             ELSE IntegrityResult("False", "No stored hash found", current_hash,
                                  "absent", "absent")

VerifyFileIntegrity ==
    /\ pc = "database"
    /\ \E file_path \in FilePaths :
          db_result' = DbReturn("verify_file_integrity", file_path,
                                VerifyFileIntegrityOf(file_path))
    /\ UNCHANGED << pc, callVars, verifyVars, convVars, concVars, clock, operations, history,
                    sessions, file_hashes, db_locked, disk_files >>

NextHash ==
    \/ WriteFile
    \/ StoreFileHash
    \/ VerifyFileIntegrity

HashSpec == InitHash /\ [][NextHash]_vars

\* --------------------------------------------------------- verify_integrity

\* Sample values of the images compared: 0, 3, 4, 16 and 255 apart.
VerifySamples == {0, 3, 4, 16, 255}

\* The sequences of n elements of S.
RECURSIVE SeqsOver(_, _)
SeqsOver(S, n) ==
    IF n = 0 THEN {<<>>}
    ELSE {Append(q, x) : q \in SeqsOver(S, n - 1), x \in S}

\* Greyscale images of one row, 1x1 RGB images, 1x1 RGBA images that differ
\* in alpha only, and a path at which there is no image.
VerifyImages ==
    UNION {{[mode |-> "L", width |-> w, height |-> 1, data |-> d] :
               d \in SeqsOver(VerifySamples, w)} : w \in 1..MaxVerifyWidth}
    \cup {[mode |-> "RGB", width |-> 1, height |-> 1, data |-> d] :
             d \in {<<0, 0, 0>>, <<0, 16, 255>>}}
    \cup {[mode |-> "RGBA", width |-> 1, height |-> 1, data |-> d] :
             d \in {<<0, 0, 0, 255>>, <<0, 0, 0, 0>>}}
    \cup {NoImage}

\* One element of (arr1 - arr2) ** 2 on uint8 arrays: the difference is taken
\* modulo 256, and so is its square.
Uint8SquaredDifference(a, b) ==
    LET difference == (a - b) % 256
    IN  (difference * difference) % 256

\* The sum of the elements of a sequence of numbers.
RECURSIVE SumSeq(_)
SumSeq(q) == IF q = <<>> THEN 0 ELSE Head(q) + SumSeq(Tail(q))

VerifyReturn(is_valid, message, mse_sum, samples) ==
    [returned |-> TRUE, is_valid |-> is_valid, message |-> message,
     mse_sum |-> mse_sum, samples |-> samples]

\* verify_integrity(original_image, stego_image).  np.mean accumulates in
\* floating point, exactly for sums this small: mse < 10 is
\* sum < 10 * number of samples.
VerifyIntegrityOf(original, stego) ==
    IF original = NoImage \/ stego = NoImage
    THEN VerifyReturn(FALSE, "Verification failed", 0, 0)
    ELSE IF <<original.width, original.height>> # <<stego.width, stego.height>>
    THEN VerifyReturn(FALSE, "Image dimensions don't match", 0, 0)
    ELSE LET arr1 == ConvertToRGB(original).data
             arr2 == ConvertToRGB(stego).data
             squares == [k \in 1..Len(arr1) |->
                            Uint8SquaredDifference(arr1[k], arr2[k])]
             mse_sum == SumSeq(squares)
         IN  IF mse_sum < 10 * Len(arr1)
             THEN VerifyReturn(TRUE, "Integrity verified", mse_sum, Len(arr1))
             ELSE VerifyReturn(FALSE, "Possible tampering detected", mse_sum,
                               Len(arr1))

\* A call of verify_integrity on two files.
InitVerify ==
    /\ pc = "verify"
    /\ cover \in VerifyImages
    /\ output_file \in VerifyImages
    /\ secret_data = <<>>
    /\ bits_per_pixel = 1
    /\ use_compression = FALSE
    /\ Locals
    /\ OthersIdle

VerifyIntegrity ==
    /\ pc = "verify"
    /\ verify_result' = VerifyIntegrityOf(cover, output_file)
    /\ pc' = "verify_done"
    /\ UNCHANGED << callVars, convVars, concVars, dbVars >>

NextVerify == VerifyIntegrity

VerifySpec == InitVerify /\ [][NextVerify]_vars

\* ------------------------------------------------------------- properties

\* What calculate_capacity reports for the call's image and bits_per_pixel.
Report == CalculateCapacity(cover, bits_per_pixel)

\* The body as stored in the frame (after the compression decision).
StoredBody == SubSeq(data_to_hide, 6, Len(data_to_hide))

\* C1: round trip.  For every cover, every bits_per_pixel in {1,2,3} and every
\* payload no longer than the report's available_bytes, embed_data succeeds
\* and extract_data on its output returns the payload.
C1_RoundTrip ==
    (/\ pc = "done"
     /\ cover # NoImage
     /\ bits_per_pixel \in {1, 2, 3}
     /\ Len(secret_data) <= Report.available_bytes)
    => (/\ embed_result.success
        /\ extract_result.ok
        /\ extract_result.data = secret_data)

\* C2: with bits_per_pixel = 1, whatever embed_data accepts comes back from
\* extract_data unchanged, compressed or not.
C2_RoundTripOneBit ==
    (pc = "done" /\ bits_per_pixel = 1 /\ embed_result.success)
    => (extract_result.ok /\ extract_result.data = secret_data)

\* C3: a payload stored uncompressed whose length is exactly the report's
\* available_bytes is accepted by embed_data.
C3_ExactCapacityAccepted ==
    (/\ pc = "done"
     /\ cover # NoImage
     /\ bits_per_pixel \in {1, 2, 3}
     /\ compression_flag = 0
     /\ Len(secret_data) = Report.available_bytes)
    => embed_result.success

\* C4: a stored body longer than the report's available_bytes never gets
\* past the capacity test: nothing is embedded, nothing is written, and
\* embed_data returns the "Data too large" failure naming available_bytes and
\* the required byte count (header and body).
C4_TooLargeRejected ==
    (/\ data_to_hide # <<>>
     /\ Len(StoredBody) > Report.available_bytes)
    => (/\ pc \in {"embed_capacity", "done"}
        /\ stego_array = <<>>
        /\ output_file = NoImage
        /\ pc = "done" =>
              embed_result = EmbedReturn(FALSE, "Data too large",
                                         Report.available_bytes,
                                         Len(StoredBody) + 5))

\* C4 witness: a body one byte over available_bytes has been refused.
C4_Witness ==
    /\ pc = "done"
    /\ embed_result.message = "Data too large"
    /\ Len(StoredBody) = Report.available_bytes + 1

\* C5 as stated: available_bits = pixels * channels * bits_per_pixel - 40 on
\* the report's own values, and available_bytes is that floor-divided by 8.
C5_ReportFormula ==
    (pc = "done" /\ ~capacity_info.raised)
    => (/\ capacity_info.available_bits =
              capacity_info.pixels * capacity_info.channels
              * capacity_info.bits_per_pixel - 40
        /\ capacity_info.available_bytes = capacity_info.available_bits \div 8)

\* C5 amended: the report's pixels is the number of samples (width * height *
\* channels, channels being 3 or 4 after normalisation); available_bits =
\* pixels * bits_per_pixel - 40; available_bytes = max(0, available_bits // 8).
C5_ReportFormulaAmended ==
    (pc = "done" /\ ~capacity_info.raised)
    => (/\ capacity_info.channels = (IF cover.mode = "RGBA" THEN 4 ELSE 3)
        /\ capacity_info.pixels =
              cover.width * cover.height * capacity_info.channels
        /\ capacity_info.bits_per_pixel = bits_per_pixel
        /\ capacity_info.available_bits =
              capacity_info.pixels * capacity_info.bits_per_pixel - 40
        /\ capacity_info.available_bytes =
              Max(0, capacity_info.available_bits \div 8))

\* C5 witness: a report on a four-channel image with room for a payload.
C5_Witness ==
    /\ pc = "done"
    /\ ~capacity_info.raised
    /\ capacity_info.channels = 4
    /\ capacity_info.available_bytes > 0

\* C6 as stated: 100x100 RGB at one bit per sample reports 3744 bytes.
C6_Scenario3744 ==
    (pc = "done" /\ cover = ScenarioCover /\ bits_per_pixel = 1)
    => capacity_info.available_bytes = 3744

\* C6 amended: the report says 3745 = (30000 - 40) // 8.
C6_Scenario3745 ==
    (pc = "done" /\ cover = ScenarioCover /\ bits_per_pixel = 1)
    => (/\ capacity_info.pixels = 30000
        /\ capacity_info.available_bytes = 3745)

\* C6 witness: the report on the 100x100 RGB image has been made.
C6_Witness ==
    /\ pc = "done"
    /\ cover = ScenarioCover
    /\ bits_per_pixel = 1
    /\ ~capacity_info.raised

\* The samples extract_data reads, and the header fields in their low bits.
StegoFlat == OpenNormalized(output_file).data

StegoHeader == BitsToBytes([i \in 1..HeaderBits |-> BitAt(StegoFlat[i], 0)])

StegoLength == UnpackLength(StegoHeader)

StoredBits == StegoHeader[5] % 8

\* file with the low three bits of the stored metadata byte (header bits
\* 37..39) set to low.
WithStoredBits(file, low) ==
    [file EXCEPT !.data =
        [k \in 1..Len(file.data) |->
            IF k \in 38..40
            THEN ClearBit(file.data[k], 0) + BitAt(low, 40 - k)
            ELSE file.data[k]]]

\* C7 as stated: the bits-per-pixel value stored in the header has no effect
\* on what extract_data reads, checks or returns: changing only that field
\* of the file changes nothing in the result.
C7_StoredBitsIgnored ==
    (/\ pc = "done"
     /\ output_file.mode \in {"RGB", "RGBA"}
     /\ Len(output_file.data) >= HeaderBits)
    => \A low \in 0..7 :
          ExtractDataOf(WithStoredBits(output_file, low)) =
             [ok |-> extract_result.ok, data |-> extract_result.data,
              body |-> extract_result.body, message |-> extract_result.message]

\* C7 amended: extract_data has no bits-per-pixel argument; it addresses the
\* body with the value b stored in the header (1 when the stored value is not
\* 1, 2 or 3): the image is too small exactly when 40 + 8 * length exceeds
\* samples * b, and body bit i is slot i mod b of sample i div b.
C7_StoredBitsAddressBody ==
    (/\ pc = "done"
     /\ output_file # NoImage
     /\ Len(StegoFlat) >= HeaderBits
     /\ StegoLength <= MaxDataLength)
    => LET b == IF StoredBits \in {1, 2, 3} THEN StoredBits ELSE 1
           need == 40 + 8 * StegoLength
       IN  /\ (extract_result.message = "Image too small")
                 <=> (need > Len(StegoFlat) * b)
           /\ (extract_result.ok /\ StegoHeader[5] < 128)
                 => extract_result.data =
                       BitsToBytes([k \in 1..(8 * StegoLength) |->
                           BitAt(StegoFlat[((39 + k) \div b) + 1], (39 + k) % b)])

\* C7 witness: a body was returned from an image that holds it at two bits
\* per sample and could not at one.
C7_Witness ==
    /\ pc = "done"
    /\ extract_result.ok
    /\ Len(extract_result.data) >= 1
    /\ StoredBits = 2
    /\ 40 + 8 * StegoLength > Len(StegoFlat)

\* C8: whenever embed_data has returned failure the output file does not
\* exist, and the output file exists only once the embedding pass has
\* produced the whole array and embed_data is past the save.
C8_NoPartialOutput ==
    /\ (embed_result.returned /\ ~embed_result.success) => output_file = NoImage
    /\ output_file # NoImage =>
          /\ pc \in {"extract", "done"}
          /\ Len(stego_array) = Len(img_array.data)
          /\ embed_result.success

\* C8 witness: a failure returned after the frame was built, with no output.
C8_Witness ==
    /\ embed_result.returned
    /\ ~embed_result.success
    /\ data_to_hide # <<>>
    /\ output_file = NoImage

\* C9: calculate_capacity with bits_per_pixel outside {1,2,3} raises and
\* returns no report.
C9_CapacityRejectsInvalidBits ==
    (pc = "done" /\ cover # NoImage /\ bits_per_pixel \notin {1, 2, 3})
    => capacity_info.raised

\* C10: embed_data with bits_per_pixel outside {1,2,3} goes from validation
\* straight to the "Bits per pixel must be 1, 2, or 3" failure: the cover is
\* never opened, no frame is built, nothing is embedded or written.
C10_InvalidBitsFailFirst ==
    (bits_per_pixel \notin {1, 2, 3})
    => (/\ pc \in {"embed_validate", "done"}
        /\ img_array = NoImage
        /\ data_to_hide = <<>>
        /\ capacity_info = NoCapacity
        /\ stego_array = <<>>
        /\ output_file = NoImage
        /\ pc = "done" =>
              embed_result = EmbedReturn(FALSE, "Bits per pixel must be 1, 2, or 3",
                                         0, 0))

\* C10 witness: the parameter failure on a cover that could not even be opened.
C10_Witness ==
    /\ pc = "done"
    /\ bits_per_pixel = 0
    /\ cover = NoImage
    /\ embed_result.message = "Bits per pixel must be 1, 2, or 3"

\* The compression flag stored in the header of the file extract_data is given.
StegoFlag == StegoHeader[5] \div 128

\* The bits per sample extract_data takes from that header.
StegoBitsUsed == IF StoredBits \in {1, 2, 3} THEN StoredBits ELSE 1

\* The file has a complete header whose length passes the sanity check.
HeaderAccepted ==
    /\ output_file # NoImage
    /\ Len(StegoFlat) >= HeaderBits
    /\ StegoLength <= MaxDataLength

\* C11: extract_data on an image with fewer than 40 samples returns no data,
\* with the message that the image is too small to contain valid data.
C11_TooFewSamplesFail ==
    (/\ pc = "done"
     /\ output_file # NoImage
     /\ Len(StegoFlat) < HeaderBits)
    => /\ extract_result.returned
       /\ ~extract_result.ok
       /\ extract_result.data = <<>>
       /\ extract_result.message = "Image too small to contain valid data"

\* C11 witness: an image of 39 samples was refused.
C11_Witness ==
    /\ pc = "done"
    /\ output_file # NoImage
    /\ Len(StegoFlat) = HeaderBits - 1
    /\ extract_result.returned
    /\ ~extract_result.ok

\* C12: whatever the size of the image, a complete header is refused with
\* "Invalid data length in header" exactly when its length field exceeds
\* 10,000,000, and then nothing was read from the body and no data returned.
C12_LengthSanityCheck ==
    (/\ pc = "done"
     /\ output_file # NoImage
     /\ Len(StegoFlat) >= HeaderBits)
    => /\ (extract_result.message = "Invalid data length in header")
             <=> (StegoLength > 10000000)
       /\ (StegoLength > 10000000)
             => (~extract_result.ok /\ extract_result.data = <<>>
                 /\ extract_result.body = <<>>)

\* C12 witness: a header declaring 10,000,001 bytes was refused.
C12_Witness ==
    /\ pc = "done"
    /\ output_file # NoImage
    /\ Len(StegoFlat) >= HeaderBits
    /\ StegoLength = 10000001
    /\ extract_result.message = "Invalid data length in header"

\* C13: with a header declaring L bytes, extract_data returns no data and the
\* "Image too small" message when 40 + 8 * L exceeds samples * b, b being the
\* bits per sample it addresses the body with; otherwise the body it reads,
\* before any decompression, is exactly L bytes long, and is what it returns
\* when the compression flag is clear.
C13_SizeCheckThenBody ==
    (pc = "done" /\ HeaderAccepted)
    => IF 40 + 8 * StegoLength > Len(StegoFlat) * StegoBitsUsed
       THEN /\ ~extract_result.ok
            /\ extract_result.data = <<>>
            /\ extract_result.body = <<>>
            /\ extract_result.message = "Image too small"
       ELSE /\ Len(extract_result.body) = StegoLength
            /\ extract_result.message # "Image too small"
            /\ (StegoFlag = 0)
                  => (extract_result.ok /\ extract_result.data = extract_result.body)

\* C13 witness: a declared body that two bits per sample cannot hold was
\* refused.
C13_Witness ==
    /\ pc = "done"
    /\ HeaderAccepted
    /\ StegoBitsUsed = 2
    /\ StegoLength >= 1
    /\ 40 + 8 * StegoLength > Len(StegoFlat) * 2
    /\ extract_result.message = "Image too small"

\* C14: when the compression flag is set and the decompressor rejects the
\* body read from the image, extract_data returns no data and the
\* "Decompression failed" message; when the decompressor accepts it, the
\* decompressed bytes are returned.
C14_DecompressionFailure ==
    (/\ pc = "done"
     /\ HeaderAccepted
     /\ 40 + 8 * StegoLength <= Len(StegoFlat) * StegoBitsUsed
     /\ StegoFlag = 1)
    => IF ZlibValid(extract_result.body)
       THEN /\ extract_result.ok
            /\ extract_result.data = ZlibDecompress(extract_result.body).data
       ELSE /\ ~extract_result.ok
            /\ extract_result.data = <<>>
            /\ extract_result.message = "Decompression failed"

\* C14 witness: a three-byte body with a zero count, which the decompressor
\* rejects, was read and refused.
C14_Witness ==
    /\ pc = "done"
    /\ HeaderAccepted
    /\ StegoFlag = 1
    /\ extract_result.body = <<120, 0, 75>>
    /\ extract_result.message = "Decompression failed"

\* C15: embed_data and extract_data never raise to the caller.  Whatever the
\* input (no decodable file, invalid bits_per_pixel, payload too large, header
\* that decodes to anything), a finished embed_data has returned a flag and a
\* message, and a finished extract_data has returned a message, with data or
\* with None.
C15_NeverRaise ==
    /\ (pc \in {"extract", "done"} /\ embed_result # NoEmbedResult)
          => (embed_result.returned /\ embed_result.message # "")
    /\ (pc = "done")
          => \/ embed_result.returned /\ ~embed_result.success
                /\ embed_result.message # "" /\ ~extract_result.returned
             \/ extract_result.returned /\ extract_result.message # ""
                /\ (extract_result.ok \/ extract_result.data = <<>>)

\* C15 witness: opening the cover raised inside embed_data, which returned
\* (False, "Embedding failed: ...").
C15_Witness ==
    /\ pc = "done"
    /\ cover = NoImage
    /\ bits_per_pixel \in {1, 2, 3}
    /\ embed_result.returned
    /\ ~embed_result.success
    /\ embed_result.message = "Embedding failed"

\* C16: for every byte string x, the empty one included,
\* _bits_to_bytes(_bytes_to_bits(x)) = x.
C16_BitsRoundTrip ==
    (pc = "round_trip_done") => (conv_bytes = conv_data)

\* C16 witness: a string of two different bytes, neither a palindrome in
\* binary, went through both conversions.
C16_Witness ==
    /\ pc = "round_trip_done"
    /\ conv_data = <<1, 254>>
    /\ Len(conv_bits) = 16

\* C17: _bytes_to_bits returns 8 * len(data) bits, and bit 8k + j of them
\* (j in 0..7) is bit 7 - j of byte k of data: most significant bit first,
\* bytes in input order.
C17_MsbFirst ==
    (pc = "round_trip_back")
    => /\ Len(conv_bits) = 8 * Len(conv_data)
       /\ \A k \in 0..(Len(conv_data) - 1) : \A j \in 0..7 :
             conv_bits[8 * k + j + 1] = (conv_data[k + 1] \div (2 ^ (7 - j))) % 2

\* C17 witness: the bytes 1 and 2 gave 0000 0001 0000 0010.
C17_Witness ==
    /\ pc = "round_trip_back"
    /\ conv_data = <<1, 2>>
    /\ conv_bits = <<0, 0, 0, 0, 0, 0, 0, 1, 0, 0, 0, 0, 0, 0, 1, 0>>

\* C18: empty payload.  For every cover and every bits_per_pixel in {1, 2, 3}
\* on which embed_data of the empty byte string succeeds, extract_data on the
\* image it wrote succeeds and returns the empty byte string.
C18_EmptyPayloadRoundTrip ==
    (/\ pc = "done"
     /\ secret_data = <<>>
     /\ bits_per_pixel \in {1, 2, 3}
     /\ embed_result.success)
    => (extract_result.ok /\ extract_result.data = <<>>)

\* C19: concurrent embed_data and extract_data calls on one engine, each on
\* image files of its own, do not disturb one another.  No step changes an
\* attribute of the engine or a file another call reads, and under every
\* interleaving a call that has returned has returned what it returns, and
\* has written at its output path what it writes, when run with no other call
\* in progress.
C19_ConcurrentCallsIndependent ==
    (pc = "threads")
    => /\ engine = NewEngine
       /\ \A t \in Threads :
             /\ files[<<t, "in">>] = initial_files[<<t, "in">>]
             /\ (calls[t].pc = "done")
                   => LET start == [calls[t] EXCEPT
                                       !.pc = IF calls[t].op = "embed"
                                              THEN "embed_validate" ELSE "extract",
                                       !.img_array = NoImage,
                                       !.compression_flag = 0,
                                       !.data_to_hide = <<>>,
                                       !.capacity_info = NoCapacity,
                                       !.stego_array = <<>>,
                                       !.embed_result = NoEmbedResult,
                                       !.extract_result = NoExtractResult]
                          alone == RunAlone(start, initial_files, NewEngine)
                      IN  /\ calls[t].embed_result = alone.call.embed_result
                          /\ calls[t].extract_result = alone.call.extract_result
                          /\ files[<<t, "out">>] = alone.files[<<t, "out">>]

\* C19 witness: two embed_data calls, one compressing its payload and one told
\* not to compress, have both run to their return and both succeeded.
C19_Witness ==
    /\ pc = "threads"
    /\ calls[1].pc = "done" /\ calls[2].pc = "done"
    /\ calls[1].use_compression /\ calls[1].compression_flag = 1
    /\ ~calls[2].use_compression /\ calls[2].op = "embed"
    /\ calls[1].embed_result.success /\ calls[2].embed_result.success
    /\ files[<<1, "out">>] # NoImage /\ files[<<2, "out">>] # NoImage

\* C20: get_operation_history returns the operations most recent first.
\* Whatever was logged, and however quickly, a history just returned lists
\* the rows in the reverse of the order they were logged in, starting with
\* the one logged last.
C20_MostRecentFirst ==
    [][GetOperationHistory =>
          \A k \in 1..Len(history') :
             history'[k].id = Len(operations) + 1 - k]_vars

\* C21: after store_file_hash(path, h), verify_file_integrity(path) for a
\* path at which no file exists returns a result whose 'stored_hash' is h and
\* whose 'verified' is False.
C21_MissingFileReportsStoredHash ==
    [][(/\ VerifyFileIntegrity
        /\ disk_files[db_result'.arg] = "missing"
        /\ db_result'.arg \in DOMAIN file_hashes)
       => /\ db_result'.value.stored_hash = file_hashes[db_result'.arg]
          /\ db_result'.value.verified = "False"]_vars

\* C22: start_session with a session_id already in the table returns False
\* and leaves the table as it is; with a fresh session_id it returns True and
\* adds exactly one row, end_time unset; and end_session sets the end_time of
\* the session's row.
C22_SessionLifecycle ==
    [][/\ StartSession =>
            IF SessionRows(db_result'.arg) # {}
            THEN db_result'.value = "False" /\ sessions' = sessions
            ELSE /\ db_result'.value = "True"
                 /\ Len(sessions') = Len(sessions) + 1
                 /\ sessions'[Len(sessions')].session_id = db_result'.arg
                 /\ sessions'[Len(sessions')].end_time = <<>>
       /\ EndSession =>
            /\ db_result'.value = "None"
            /\ \A k \in 1..Len(sessions') :
                  (sessions'[k].session_id = db_result'.arg)
                     => sessions'[k].end_time # <<>>]_vars

\* The frame's bits, as embed_data hands them to _embed_bits_safe.
FrameBits == BytesToBits(data_to_hide)

\* The embedding pass has run in this call.
Embedded == pc \in {"embed_save", "extract", "done"} /\ stego_array # <<>>

\* C23: embed bit addressing.  After the embedding pass, for every frame bit
\* position i, slot i mod bits_per_pixel of sample i div bits_per_pixel holds
\* frame bit i (slot 0 the least significant bit).
C23_EmbedBitAddressing ==
    Embedded
    => \A i \in 0..(Len(FrameBits) - 1) :
          (i \div bits_per_pixel < Len(stego_array))
             => BitAt(stego_array[(i \div bits_per_pixel) + 1], i % bits_per_pixel)
                   = FrameBits[i + 1]

\* C24: embed_data and extract_data agree on the header for every
\* bits_per_pixel in {1, 2, 3}: whenever embed_data succeeds, the output has
\* the 40 samples extract_data reads the header from, and their least
\* significant bits are the 40 header bits embed_data built.
C24_HeaderAgreement ==
    (pc \in {"extract", "done"} /\ embed_result.success)
    => /\ Len(StegoFlat) >= 40
       /\ \A i \in 1..40 : BitAt(StegoFlat[i], 0) = FrameBits[i]

\* C25: after the embedding pass every sample of index
\* ceil(len(frame bits) / bits_per_pixel) or more has the value it has in the
\* cover.
C25_SamplesBeyondFrameUntouched ==
    Embedded
    => \A k \in 1..Len(stego_array) :
          (k - 1 >= (Len(FrameBits) + bits_per_pixel - 1) \div bits_per_pixel)
             => stego_array[k] = img_array.data[k]


\* The flat array as the loop of _embed_bits_safe leaves it, before any clamp.
LoopResult == EmbedBitsFinal(img_array.data, FrameBits, bits_per_pixel)

\* C26: embedding changes only the low bits_per_pixel bits of a sample: the
\* bits above them are the cover's, so every value the loop produces is in
\* 0..255, the clamp changes nothing, and a sample moves by at most
\* 2^bits_per_pixel - 1.
C26_OnlyLowBitsChange ==
    Embedded =>
        LET raw == LoopResult.flat_array
            span == Pow2(bits_per_pixel)
        IN  /\ Len(raw) = Len(img_array.data)
            /\ Len(stego_array) = Len(raw)
            /\ \A k \in 1..Len(raw) :
                  /\ raw[k] \div span = img_array.data[k] \div span
                  /\ raw[k] \in 0..255
                  /\ stego_array[k] = raw[k]
                  /\ stego_array[k] - img_array.data[k] \in (1 - span)..(span - 1)

\* An embedding at three bits per sample that moved a sample by the full 7.
C26_Witness ==
    /\ Embedded
    /\ bits_per_pixel = 3
    /\ \E k \in 1..Len(stego_array) :
          stego_array[k] - img_array.data[k] \in {-7, 7}

\* The frame has been built.
FrameBuilt == pc \in {"embed_capacity", "embed_bits", "embed_save", "extract", "done"}
              /\ data_to_hide # <<>>

\* C27: the frame is a 5-byte header followed by the body as stored: bytes
\* 1..4 are the body's byte count, most significant byte first, byte 5 is
\* (compression flag << 7) | (bits_per_pixel & 0x07), and the frame has
\* 40 + 8 * len(body) bits.
C27_FrameLayout ==
    FrameBuilt =>
        LET body == IF compression_flag = 1 THEN ZlibCompress(secret_data)
                    ELSE secret_data
        IN  /\ Len(data_to_hide) = 5 + Len(body)
            /\ StoredBody = body
            /\ data_to_hide[1] * 16777216 + data_to_hide[2] * 65536
                  + data_to_hide[3] * 256 + data_to_hide[4] = Len(body)
            /\ \A k \in 1..5 : data_to_hide[k] \in 0..255
            /\ data_to_hide[5] = compression_flag * 128 + (bits_per_pixel % 8)
            /\ Len(FrameBits) = HeaderBits + 8 * Len(body)

\* A frame whose body is the compressed form of the payload.
C27_Witness ==
    /\ FrameBuilt
    /\ compression_flag = 1
    /\ Len(StoredBody) > 0
    /\ data_to_hide[4] = Len(StoredBody)
    /\ data_to_hide[5] = 128 + bits_per_pixel

\* C28: the flag is 1 exactly when compression was asked for, the payload is
\* longer than 100 bytes and its compressed form is strictly shorter; then
\* the stored body is the compressed form, and in every other case the
\* stored body is the payload itself and the flag is 0.
C28_CompressionPolicy ==
    FrameBuilt =>
        LET compressed == ZlibCompress(secret_data)
            attempted == use_compression /\ Len(secret_data) > 100
        IN  /\ compression_flag \in {0, 1}
            /\ compression_flag = 1 <=> (attempted /\ Len(compressed) < Len(secret_data))
            /\ compression_flag = 1 =>
                  /\ StoredBody = compressed
                  /\ Len(StoredBody) < Len(secret_data)
            /\ compression_flag = 0 => StoredBody = secret_data

\* A payload of 101 bytes stored compressed, the flag set.
C28_Witness ==
    /\ FrameBuilt
    /\ use_compression
    /\ Len(secret_data) = 101
    /\ compression_flag = 1
    /\ StoredBody # secret_data

\* C29: when embed_data returns success every bit of the frame has been
\* written: the loop of _embed_bits_safe went through all the frame bits and
\* did not run out of samples first.
C29_NoSilentTruncation ==
    (pc \in {"extract", "done"} /\ embed_result.success)
        => LoopResult.bit_idx = Len(FrameBits)

\* The two files as verify_integrity compares them.
VerifyComparable ==
    /\ cover # NoImage
    /\ output_file # NoImage
    /\ <<cover.width, cover.height>> = <<output_file.width, output_file.height>>

\* The sum over the samples of the squared differences, over the integers.
TrueSquaredSum ==
    LET arr1 == ConvertToRGB(cover).data
        arr2 == ConvertToRGB(output_file).data
    IN  SumSeq([k \in 1..Len(arr1) |-> (arr1[k] - arr2[k]) * (arr1[k] - arr2[k])])

\* C30: verify_integrity returns valid exactly when the two images have the
\* same dimensions and the mean of the squared sample differences, computed
\* over the integers, is below 10.
C30_ValidIffTrueMseBelowTen ==
    pc = "verify_done" =>
        (verify_result.is_valid
            <=> (VerifyComparable
                 /\ TrueSquaredSum < 10 * Len(ConvertToRGB(cover).data)))

====
